---- MODULE Spec2Model ----
(***************************************************************************)
(* A model of the command-line notebook of src/main.py: the Notebook's     *)
(* in-memory list of Notes, the notes folder on disk, and the interactive  *)
(* loop that feeds command lines to CommandProcessor.process.              *)
(*                                                                         *)
(* Strings are sequences of symbols.  A symbol is a character ("a", "/",   *)
(* "_", "CR", "LF") or a word that the program treats as a unit (a command *)
(* keyword, the ".txt" extension, an answer to a prompt).                  *)
(* The filesystem is a POSIX one: file names are case sensitive, rename    *)
(* replaces an existing target, text-mode reads translate newlines.  The   *)
(* program runs from the directory of main.py, so that the relative path   *)
(* of display_notes and notes_folder name the same folder.                 *)
(* Note.edited_time is a wall-clock stamp that no operation reads back     *)
(* into a decision; it is not part of the state.                           *)
(***************************************************************************)
EXTENDS Integers, Sequences, FiniteSets, TLC

VARIABLES
    notes,   \* Notebook.notes: the ordered list of Note objects
    files,   \* the notes folder: file name (relative to the folder) -> text
    pc,      \* "loop": main() is reading commands; "exited"; "crashed"
    last     \* the last event: keyword, arguments, replies, output, result

vars == <<notes, files, pc, last>>

(***************************************************************************)
(* Bounds and input alphabets                                              *)
(***************************************************************************)
MaxNotes == 3      \* cap on the length of Notebook.notes
MaxMissing == 1    \* cap on the backing files missing at one time

a == <<"a">>
A == <<"A">>
b == <<"b">>
db == <<"d", "/", "b">>       \* a name with a path separator
a_b == <<"a", "_", "b">>

TXT == ".txt"
MD == ".md"

tx == <<"x">>
tz == <<"z">>
tyCRLF == <<"y", "CR", "LF">>

\* texts a file can hold when the program starts
FolderTexts == {tx, tyCRLF}
\* what the user can type at the one-line content prompt
TypedTexts == {tx, tz}
\* what the external editor can leave in the file
EditorTexts == {tz, tyCRLF}
\* answers to the delete confirmation
Answers == {"yes", "YES", "no"}
\* argument lists after the keyword, as split() leaves them
CreateArgs == {<<>>, <<a>>, <<A>>, <<db>>, <<a, b>>}
EditArgs == {<<>>, <<A>>, <<b>>, <<a, b>>}
DeleteArgs == {<<>>, <<A>>, <<b, a>>, <<db>>}
RenameArgs == {<<>>, <<a>>, <<a, b>>, <<A, a>>, <<b, db>>, <<a_b, a, b>>}
NoArgs == {<<>>}
\* first tokens of a command line
Keywords == {"home", "create", "edit", "delete", "rename", "help",
             "exit", "quit", "q"}
FirstTokens == Keywords \cup {"HOME", "bogus"}

(***************************************************************************)
(* str.lower, "_".join, the file path of a note                            *)
(***************************************************************************)
LowerSym(c) ==
    CASE c = "A" -> "a"
      [] c = "HOME" -> "home"
      [] c = "YES" -> "yes"
      [] OTHER -> c

Lower(s) == [i \in 1..Len(s) |-> LowerSym(s[i])]

RECURSIVE Join(_)
Join(args) ==
    IF Len(args) = 0 THEN <<>>
    ELSE IF Len(args) = 1 THEN args[1]
    ELSE args[1] \o <<"_">> \o Join(Tail(args))

FilePath(name) == name \o <<TXT>>

ArgsOf(k) ==
    CASE LowerSym(k) = "create" -> CreateArgs
      [] LowerSym(k) = "edit" -> EditArgs
      [] LowerSym(k) = "delete" -> DeleteArgs
      [] LowerSym(k) = "rename" -> RenameArgs
      [] OTHER -> NoArgs

\* the command lines the user types, as token lists
Lines ==
    {<<>>} \cup UNION {{<<(<<k>>)>> \o args : args \in ArgsOf(k)} : k \in FirstTokens}

Note(name, content) ==
    [name |-> name, content |-> content, filepath |-> FilePath(name)]

(***************************************************************************)
(* The filesystem                                                          *)
(***************************************************************************)
\* the folder has no subdirectories: a path with a separator names a
\* directory that does not exist
HasDir(path) == \E i \in 1..Len(path) : path[i] = "/"

Exists(f, path) == path \in DOMAIN f

\* open(path, "r").read(): universal newlines, CR LF and CR become LF
RECURSIVE ReadText(_)
ReadText(t) ==
    IF Len(t) = 0 THEN <<>>
    ELSE IF t[1] = "CR"
         THEN IF Len(t) > 1 /\ t[2] = "LF"
              THEN <<"LF">> \o ReadText(Tail(Tail(t)))
              ELSE <<"LF">> \o ReadText(Tail(t))
         ELSE <<t[1]>> \o ReadText(Tail(t))

\* open(path, "w").write(text) on POSIX: the text as given
WriteFile(f, path, text) ==
    [p \in DOMAIN f \cup {path} |-> IF p = path THEN text ELSE f[p]]

\* os.rename(src, dst) when src exists and the directory of dst exists
os_rename(f, src, dst) ==
    [p \in (DOMAIN f \ {src}) \cup {dst} |-> IF p = dst THEN f[src] ELSE f[p]]

RemoveFile(f, path) == [p \in DOMAIN f \ {path} |-> f[p]]

(***************************************************************************)
(* Outcomes of a handler: the state it leaves, what it printed or asked,   *)
(* what it returned, and whether an exception left process().              *)
(***************************************************************************)
Ok(n, f, out, ret) ==
    [notes |-> n, files |-> f, out |-> out, ret |-> ret, pc |-> "loop"]

Raise(n, f, out, exc) ==
    [notes |-> n, files |-> f, out |-> out, ret |-> exc, pc |-> "crashed"]

\* Notebook.display_notes opens notes/<name>.txt of every note
display_notes_ok(n, f) == \A i \in 1..Len(n) : Exists(f, FilePath(n[i].name))

\* Notebook.reset_screen, then the prints and the return that follow it
reset_screen(n, f, out, after, ret) ==
    IF display_notes_ok(n, f)
    THEN Ok(n, f, out \o <<"table">> \o after, ret)
    ELSE Raise(n, f, out, "FileNotFoundError")

(***************************************************************************)
(* Notebook                                                                *)
(***************************************************************************)
\* Notebook.load_notes over one directory listing (a sequence of names)
RECURSIVE load_notes(_, _)
load_notes(listing, f) ==
    IF Len(listing) = 0 THEN <<>>
    ELSE LET note_file == listing[1]
             rest == load_notes(Tail(listing), f)
         IN IF note_file[Len(note_file)] = TXT
            THEN <<Note(SubSeq(note_file, 1, Len(note_file) - 1),
                        ReadText(f[note_file]))>> \o rest
            ELSE rest

\* a comparison that forgets lower(): names match only when spelled alike
note_exists_exact(n, name) ==
    \E i \in 1..Len(n) : n[i].name = name

note_exists(n, name) ==
    \E i \in 1..Len(n) : Lower(n[i].name) = Lower(name)

\* Notebook.get_note: the index of the first match, 0 for None
get_note(n, name) ==
    IF \E i \in 1..Len(n) : Lower(n[i].name) = Lower(name)
    THEN CHOOSE i \in 1..Len(n) :
            /\ Lower(n[i].name) = Lower(name)
            /\ \A j \in 1..(i - 1) : Lower(n[j].name) # Lower(name)
    ELSE 0

ConflictMsg == "A note with this name already exists. Please choose a different name."

create_note(n, f, name, content) ==
    IF note_exists(n, name)
    THEN Ok(n, f, <<ConflictMsg>>, "None")
    ELSE LET note == Note(name, content)
             n2 == Append(n, note)
             asked == <<"input: Enter the content of your note">>
         IN IF HasDir(note.filepath)
            THEN Raise(n2, f, asked, "FileNotFoundError")
            ELSE reset_screen(n2, WriteFile(f, note.filepath, note.content),
                              asked, <<>>, "None")

rename_note(n, f, old_name, new_name) ==
    IF Lower(old_name) # Lower(new_name) /\ note_exists(n, new_name)
    THEN Ok(n, f, <<ConflictMsg>>, "None")
    ELSE LET i == get_note(n, old_name) IN
         IF i # 0
         THEN LET old_filepath == n[i].filepath
                  n2 == [n EXCEPT ![i].name = new_name,
                                  ![i].filepath = FilePath(new_name)]
              IN IF ~Exists(f, old_filepath) \/ HasDir(n2[i].filepath)
                 THEN Raise(n2, f, <<>>, "FileNotFoundError")
                 ELSE LET f2 == os_rename(f, old_filepath, n2[i].filepath)
                          f3 == WriteFile(f2, n2[i].filepath, n2[i].content)
                      IN reset_screen(n2, f3, <<>>,
                                      <<"Note renamed successfully.">>, "None")
         ELSE reset_screen(n, f, <<>>, <<"Note not found.">>, "None")

\* a delete that does not look at the answer to its prompt
confirmed_unasked(answer) == TRUE

\* the test of the confirmation: input(...).lower() == 'yes'
confirmed(answer) == LowerSym(answer) = "yes"

\* class Note defines __init__, edit, load_content, save and display: the
\* call note.delete() raises AttributeError before anything is removed
delete_note(n, f, name, answer) ==
    LET i == get_note(n, name)
        asked == <<"input: Are you sure you want to delete the note? (yes/no)">>
    IN IF i # 0
       THEN IF confirmed(answer)
            THEN Raise(n, f, asked, "AttributeError")
            ELSE Ok(n, f, asked \o <<"Deletion cancelled.">>, "False")
       ELSE reset_screen(n, f, <<>>, <<>>, "False")

(***************************************************************************)
(* Note                                                                    *)
(***************************************************************************)
\* Note.save of the note at index i
save(n, f, i) ==
    IF HasDir(n[i].filepath)
    THEN Raise(n, f, <<>>, "FileNotFoundError")
    ELSE Ok(n, WriteFile(f, n[i].filepath, n[i].content), <<>>, "None")

\* Note.load_content of the note at index i (the file exists)
load_content(n, f, i) == [n EXCEPT ![i].content = ReadText(f[n[i].filepath])]

NoEdit == <<"unchanged">>
EditorSaves == EditorTexts \cup {NoEdit}

\* Note.edit of the note at index i.  launch: subprocess.run starts the
\* editor; text: what the user saves in the editor, or NoEdit
Note_edit(n, f, i, launch, text) ==
    LET missing == ~Exists(f, n[i].filepath)
        s == IF missing THEN save(n, f, i) ELSE Ok(n, f, <<>>, "None")
        out1 == IF missing
                THEN <<"The note file does not exist. Creating a new file.">>
                ELSE <<>>
    IN IF s.pc = "crashed" THEN Raise(n, f, out1, s.ret)
       ELSE IF ~launch
            THEN Ok(n, s.files, out1 \o <<"An error occurred">>, "None")
            ELSE LET f2 == IF text = NoEdit THEN s.files
                           ELSE WriteFile(s.files, n[i].filepath, text)
                 IN Ok(load_content(n, f2, i), f2,
                       out1 \o <<"Note is opened in the text editor.",
                                 "input: Press Enter when you are done editing...">>,
                       "None")

(***************************************************************************)
(* CommandProcessor                                                        *)
(***************************************************************************)
Reply(text, word, launch) == [text |-> text, word |-> word, launch |-> launch]
NoReply == Reply(<<>>, "", TRUE)
\* the editor starts and the user saves a text or nothing, or the launch fails
EditReplies ==
    {Reply(t, "", TRUE) : t \in EditorSaves} \cup {Reply(NoEdit, "", FALSE)}

cmd_home(n, f, args) == reset_screen(n, f, <<>>, <<>>, "None")

cmd_create(n, f, args, reply) ==
    IF Len(args) > 0
    THEN create_note(n, f, Join(args), reply.text)
    ELSE Ok(n, f, <<"Please provide a note name.">>, "None")

cmd_edit(n, f, args, reply) ==
    IF Len(args) > 0
    THEN LET i == get_note(n, Join(args)) IN
         IF i # 0
         THEN LET e == Note_edit(n, f, i, reply.launch, reply.text) IN
              IF e.pc = "crashed" THEN e
              ELSE LET s == save(e.notes, e.files, i) IN
                   IF s.pc = "crashed" THEN Raise(s.notes, s.files, e.out, s.ret)
                   ELSE reset_screen(s.notes, s.files, e.out, <<>>, "None")
         ELSE Ok(n, f, <<"Note not found.">>, "None")
    ELSE Ok(n, f, <<"Please provide a note name.">>, "None")

cmd_delete(n, f, args, reply) ==
    IF Len(args) > 0
    THEN LET d == delete_note(n, f, args[1], reply.word) IN
         IF d.pc = "crashed" THEN d
         ELSE IF d.ret = "True"
              THEN [d EXCEPT !.out = d.out \o <<"Note deleted successfully.">>]
              ELSE [d EXCEPT !.out = d.out \o <<"Note not found.">>]
    ELSE Ok(n, f, <<"Please provide a note name.">>, "None")

cmd_rename(n, f, args) ==
    IF Len(args) > 1
    THEN rename_note(n, f, args[1], Join(Tail(args)))
    ELSE Ok(n, f, <<"Please provide the old and new note names.">>, "None")

cmd_help(n, f, args) == Ok(n, f, <<"help_text">>, "None")

cmd_exit(n, f, args) ==
    [notes |-> n, files |-> f, out |-> <<>>, ret |-> "SystemExit", pc |-> "exited"]

\* CommandProcessor.process on the tokens of one line
process(n, f, tokens, reply) ==
    IF Len(tokens) = 0 THEN Ok(n, f, <<>>, "None")
    ELSE LET action == Lower(tokens[1])[1]
             args == Tail(tokens)
         IN CASE action = "home" -> cmd_home(n, f, args)
              [] action = "create" -> cmd_create(n, f, args, reply)
              [] action = "edit" -> cmd_edit(n, f, args, reply)
              [] action = "delete" -> cmd_delete(n, f, args, reply)
              [] action = "rename" -> cmd_rename(n, f, args)
              [] action = "help" -> cmd_help(n, f, args)
              [] action \in {"exit", "quit", "q"} -> cmd_exit(n, f, args)
              [] OTHER -> Ok(n, f, <<"Invalid command">>, "None")

ActionOf(tokens) == IF Len(tokens) = 0 THEN "" ELSE Lower(tokens[1])[1]
ArgsIn(tokens) == IF Len(tokens) = 0 THEN <<>> ELSE Tail(tokens)

(***************************************************************************)
(* main(): load, then one command line per step                            *)
(***************************************************************************)
InitNames == {FilePath(a), FilePath(A)}
OtherFile == <<"n", MD>>

\* the notes folder at startup: some .txt files and one file that is not
Folders ==
    UNION {[S \cup {OtherFile} -> FolderTexts] : S \in SUBSET InitNames}

\* os.listdir returns the entries in arbitrary order
Listings(f) ==
    {l \in [1..Cardinality(DOMAIN f) -> DOMAIN f] :
        \A i, j \in 1..Cardinality(DOMAIN f) : i # j => l[i] # l[j]}


Init ==
    /\ files \in Folders
    /\ \E l \in Listings(files) : notes = load_notes(l, files)
    /\ pc = "loop"
    /\ last = [cmd |-> "start", args |-> <<>>, reply |-> NoReply,
               out |-> <<"table">>, ret |-> "None"]

\* one iteration of the loop of main(): read a line, process it
Step(line, reply) ==
    /\ pc = "loop"
    /\ \E r \in {process(notes, files, line, reply)} :
        /\ Len(r.notes) <= MaxNotes
        /\ notes' = r.notes
        /\ files' = r.files
        /\ pc' = r.pc
        /\ last' = [cmd |-> ActionOf(line), args |-> ArgsIn(line), reply |-> reply,
                    out |-> r.out, ret |-> r.ret]

LinesOf(K) == {l \in Lines : ActionOf(l) \in K}
HomeLines == LinesOf({"home"})
HelpLines == LinesOf({"help"})
ExitLines == LinesOf({"exit", "quit", "q"})
CreateLines == LinesOf({"create"})
EditLines == LinesOf({"edit"})
DeleteLines == LinesOf({"delete"})
RenameLines == LinesOf({"rename"})
InvalidLines == {l \in Lines : ActionOf(l) \notin Keywords \cup {""}}

Empty ==
    /\ pc = "loop"
    /\ Step(<<>>, NoReply)
Invalid ==
    /\ pc = "loop"
    /\ \E l \in InvalidLines : Step(l, NoReply)
Home ==
    /\ pc = "loop"
    /\ \E l \in HomeLines : Step(l, NoReply)
Help ==
    /\ pc = "loop"
    /\ \E l \in HelpLines : Step(l, NoReply)
Exit ==
    /\ pc = "loop"
    /\ \E l \in ExitLines : Step(l, NoReply)
Create ==
    /\ pc = "loop"
    /\ \E l \in CreateLines, t \in TypedTexts : Step(l, Reply(t, "", TRUE))
Edit ==
    /\ pc = "loop"
    /\ \E l \in EditLines, r \in EditReplies : Step(l, r)
Delete ==
    /\ pc = "loop"
    /\ \E l \in DeleteLines, w \in Answers : Step(l, Reply(<<>>, w, TRUE))
Rename ==
    /\ pc = "loop"
    /\ \E l \in RenameLines : Step(l, NoReply)

Next ==
    \/ Empty
    \/ Invalid
    \/ Home
    \/ Help
    \/ Exit
    \/ Create
    \/ Edit
    \/ Delete
    \/ Rename

Spec == Init /\ [][Next]_vars

\* a file of the folder is removed from outside while the program runs
Missing(n, f) == {i \in 1..Len(n) : ~Exists(f, n[i].filepath)}

OutsideRemove ==
    /\ pc = "loop"
    /\ Cardinality(Missing(notes, files)) < MaxMissing
    /\ \E i \in 1..Len(notes) :
          /\ Exists(files, notes[i].filepath)
          /\ files' = RemoveFile(files, notes[i].filepath)
    /\ last' = [cmd |-> "outside", args |-> <<>>, reply |-> NoReply,
                out |-> <<>>, ret |-> "None"]
    /\ UNCHANGED <<notes, pc>>

NextEnv ==
    \/ Next
    \/ OutsideRemove

SpecEnv == Init /\ [][NextEnv]_vars

TypeOK ==
    /\ pc \in {"loop", "exited", "crashed"}
    /\ \A i \in 1..Len(notes) : notes[i].filepath = FilePath(notes[i].name)

(***************************************************************************)
(* Properties                                                              *)
(***************************************************************************)
\* the step just taken is the command line l answered with reply
Took(l, reply) ==
    /\ last'.cmd = ActionOf(l)
    /\ last'.args = ArgsIn(l)
    /\ last'.reply = reply
    /\ Step(l, reply)

SameName(x, y) == Lower(x) = Lower(y)
Named(n, name) == {i \in 1..Len(n) : SameName(n[i].name, name)}
Printed(msg) == \E k \in 1..Len(last.out) : last.out[k] = msg
TxtStems(f) == {SubSeq(p, 1, Len(p) - 1) : p \in {q \in DOMAIN f : q[Len(q)] = TXT}}
NoteNames(n) == {n[i].name : i \in 1..Len(n)}
OtherNotesSame(n, m, i) == \A j \in 1..Len(n) : j # i => (j <= Len(m) /\ m[j] = n[j])
OtherFilesSame(f, g, paths) ==
    /\ DOMAIN f \ paths = DOMAIN g \ paths
    /\ \A p \in DOMAIN f \ paths : g[p] = f[p]

\* C1: in every reachable state no two Notes of the collection have names
\* that are equal under case-insensitive comparison.
C1_NoTwoNotesShareAName ==
    \A i, j \in 1..Len(notes) : i # j => ~SameName(notes[i].name, notes[j].name)

\* C2: after every completed create, edit, rename or delete command the set
\* of note names equals the set of stems of the .txt files of the folder and
\* each note's in-memory content equals the text of its file.
C2_MemoryMirrorsFolder ==
    (pc = "loop" /\ last.cmd \in {"create", "edit", "rename", "delete"}) =>
        /\ NoteNames(notes) = TxtStems(files)
        /\ \A i \in 1..Len(notes) :
              /\ Exists(files, notes[i].filepath)
              /\ files[notes[i].filepath] = notes[i].content

\* C3: delete of an existing note, confirmed with yes, removes the note's
\* file and the Note, returns true, leaves get_note(name) not found and
\* every other note and file unchanged.
C3_ConfirmedDeleteRemoves ==
    [][\A l \in DeleteLines, w \in Answers :
         (/\ Len(l) > 1
          /\ Took(l, Reply(<<>>, w, TRUE))
          /\ Named(notes, l[2]) # {}
          /\ LowerSym(w) = "yes")
         => LET i == get_note(notes, l[2]) IN
            /\ pc' = "loop"
            /\ last'.ret = "True"
            /\ notes' = SubSeq(notes, 1, i - 1) \o SubSeq(notes, i + 1, Len(notes))
            /\ ~Exists(files', notes[i].filepath)
            /\ OtherFilesSame(files, files', {notes[i].filepath})
            /\ Named(notes', l[2]) = {}]_vars

\* C4, as stated: delete with any answer other than the word yes, or of a
\* name that matches no note, returns false and leaves the collection and
\* every file unchanged.
C4_AnyOtherAnswerDeclines ==
    [][\A l \in DeleteLines, w \in Answers :
         (/\ Len(l) > 1
          /\ Took(l, Reply(<<>>, w, TRUE))
          /\ (Named(notes, l[2]) = {} \/ w # "yes"))
         => /\ pc' = "loop"
            /\ last'.ret = "False"
            /\ notes' = notes
            /\ files' = files]_vars

\* C4, amended: delete with a declined confirmation (the answer, put in
\* lower case, is not yes), or of a name that matches no note, returns
\* false and leaves the collection and every file unchanged.
C4_DeclinedOrAbsentDeleteChangesNothing ==
    [][\A l \in DeleteLines, w \in Answers :
         (/\ Len(l) > 1
          /\ Took(l, Reply(<<>>, w, TRUE))
          /\ (Named(notes, l[2]) = {} \/ LowerSym(w) # "yes"))
         => /\ pc' = "loop"
            /\ last'.ret = "False"
            /\ notes' = notes
            /\ files' = files]_vars

C4_Witness ==
    /\ last.cmd = "delete"
    /\ last.reply.word = "no"
    /\ last.ret = "False"
    /\ Printed("Deletion cancelled.")
    /\ Named(notes, last.args[1]) # {}

\* C5: no command raises an exception out of process(), and the loop stops
\* only when exit, quit or q is issued.
C5_LoopStopsOnlyOnExit ==
    pc # "loop" => (pc = "exited" /\ last.cmd \in {"exit", "quit", "q"})

\* C6: rename of an existing note a to a name b that no note has leaves no
\* file a.txt, leaves b.txt holding the note's original content, keeps the
\* note at its position under the name b with the same content, makes
\* get_note(a) not found, and changes no other note or file.
C6_RenameMovesNoteAndFile ==
    [][\A l \in RenameLines :
         (/\ Len(l) > 2
          /\ Took(l, NoReply)
          /\ Named(notes, l[2]) # {}
          /\ Named(notes, Join(Tail(Tail(l)))) = {})
         => LET i == get_note(notes, l[2])
                new_name == Join(Tail(Tail(l)))
            IN /\ pc' = "loop"
               /\ Len(notes') = Len(notes)
               /\ notes'[i] = Note(new_name, notes[i].content)
               /\ OtherNotesSame(notes, notes', i)
               /\ ~Exists(files', FilePath(l[2]))
               /\ ~Exists(files', notes[i].filepath)
               /\ Exists(files', FilePath(new_name))
               /\ files'[FilePath(new_name)] = notes[i].content
               /\ OtherFilesSame(files, files', {notes[i].filepath, FilePath(new_name)})
               /\ Named(notes', l[2]) = {}]_vars

\* C7: each Note's filepath is <notes_folder>/<name>.txt, and whenever a
\* Note's in-memory name changes its backing file has moved with it: the
\* file is at the new path and no longer at the old one.
C7_RenameIsAtomic ==
    [][/\ \A i \in 1..Len(notes') : notes'[i].filepath = FilePath(notes'[i].name)
       /\ \A i \in 1..Len(notes) :
            (i <= Len(notes') /\ notes'[i].name # notes[i].name)
            => /\ Exists(files', notes'[i].filepath)
               /\ ~Exists(files', notes[i].filepath)]_vars

\* C8: a name conflict causes no mutation: create of a name that some note
\* has up to letter case, and rename to a name of another note (old and new
\* differing beyond letter case), print the conflict message and leave the
\* collection and every file unchanged; create asks for no content.
C8_ConflictChangesNothing ==
    [][/\ \A l \in CreateLines, t \in TypedTexts :
            (/\ Len(l) > 1
             /\ Took(l, Reply(t, "", TRUE))
             /\ Named(notes, Join(Tail(l))) # {})
            => /\ pc' = "loop"
               /\ last'.out = <<ConflictMsg>>
               /\ notes' = notes
               /\ files' = files
       /\ \A l \in RenameLines :
            (/\ Len(l) > 2
             /\ Took(l, NoReply)
             /\ ~SameName(l[2], Join(Tail(Tail(l))))
             /\ Named(notes, Join(Tail(Tail(l)))) # {})
            => /\ pc' = "loop"
               /\ last'.out = <<ConflictMsg>>
               /\ notes' = notes
               /\ files' = files]_vars

\* create A was refused because the note a exists
C8_Witness ==
    /\ last.cmd = "create"
    /\ last.args = <<A>>
    /\ last.out = <<ConflictMsg>>
    /\ a \in NoteNames(notes)
    /\ A \notin NoteNames(notes)

\* C9: create of a name no note has appends exactly one Note at the end;
\* get_note of the name in any letter case returns it, its content is the
\* entered content, its file <name>.txt holds exactly that text, and the
\* other notes and files are unchanged.
C9_CreateRoundTrip ==
    [][\A l \in CreateLines, t \in TypedTexts :
         (/\ Len(l) > 1
          /\ Took(l, Reply(t, "", TRUE))
          /\ Named(notes, Join(Tail(l))) = {})
         => LET name == Join(Tail(l)) IN
            /\ pc' = "loop"
            /\ notes' = Append(notes, Note(name, t))
            /\ get_note(notes', name) = Len(notes')
            /\ get_note(notes', Lower(name)) = Len(notes')
            /\ Exists(files', FilePath(name))
            /\ files'[FilePath(name)] = t
            /\ OtherFilesSame(files, files', {FilePath(name)})]_vars

\* C10: after edit of an existing note the in-memory content equals the
\* text of the backing file as the editor left it; a failed editor launch
\* is reported, the program continues and the file keeps the text it held
\* before the command; no other note or file changes.
C10_EditReloadsAndKeepsFile ==
    [][\A l \in EditLines, r \in EditReplies :
         (/\ Len(l) > 1
          /\ Took(l, r)
          /\ Named(notes, Join(Tail(l))) # {})
         => LET i == get_note(notes, Join(Tail(l)))
                path == notes[i].filepath
            IN /\ pc' = "loop"
               /\ Exists(files', path)
               /\ notes'[i].content = files'[path]
               /\ (r.launch /\ r.text # NoEdit) => files'[path] = r.text
               /\ ((~r.launch \/ r.text = NoEdit) /\ Exists(files, path))
                     => files'[path] = files[path]
               /\ ~r.launch => \E k \in 1..Len(last'.out) : last'.out[k] = "An error occurred"
               /\ notes'[i].name = notes[i].name
               /\ OtherNotesSame(notes, notes', i)
               /\ OtherFilesSame(files, files', {path})]_vars

====
